---- MODULE Spec2Model ----
(***************************************************************************)
(* Model of holter_hybrid_system.py: the UDP receive loop                  *)
(* (UDPReceiver._receive_loop), the hand-off queue, and the windowed       *)
(* processor (WaveletProcessor.process_sample / _process_window) driven by *)
(* HolterSystem._processing_loop.                                          *)
(*                                                                         *)
(* A datagram is a sequence of characters.  A character is one of          *)
(*   [ch  |-> ","]      the field separator,                                *)
(*   [num |-> n]        a numeric literal that float() parses to n,         *)
(*   [txt |-> s]        a run of text that float() rejects.                 *)
(* A sample is the list of 8 floats the receive loop puts on the queue.    *)
(***************************************************************************)
EXTENDS Integers, Sequences, FiniteSets, TLC

\* ---- bounds of the model ------------------------------------------------
MaxWindow == 3      \* largest WINDOW_SIZE explored
MaxSamples == 5     \* well-formed datagrams the device sends
MaxLen == 3         \* longest signal given to adaptive_wavelet_filter alone
MaxLevel == 2       \* deepest decomposition asked of it
MaxMask == 10       \* longest window given to the window filter alone
\* acceleration magnitudes the device reports
AccValues == {0, 1}
\* values of a finest-band wavelet coefficient
CoefValues == {-1, 0}
\* values of an ECG sample given to the filter
SignalValues == {0, 1}

VARIABLES
    WINDOW_SIZE,        \* HolterConfig.WINDOW_SIZE
    OVERLAP,            \* HolterConfig.OVERLAP
    \* -- environment
    sent,               \* well-formed datagrams delivered so far (device clock)
    lastMsg,            \* the datagram the last iteration of the receive loop handled
    \* -- UDPReceiver
    recv_running,       \* UDPReceiver.running
    sock_open,          \* FALSE once UDPReceiver.stop closed the socket
    rpc,                \* receive loop position: "recv" (in recvfrom) | "done"
    printed,            \* the line the last iteration of the receive loop printed
    \* -- queue.Queue
    data_queue,
    enq,                \* history: every sample ever put on the queue
    \* -- HolterSystem
    running,            \* HolterSystem.running
    sample_count,
    pc,                 \* processing loop position
    data,               \* the sample process_sample is working on
    \* -- WaveletProcessor
    timestamp_buffer, ecg_I_buffer, ecg_II_buffer, ecg_III_buffer, acc_mag_buffer,
    acc_threshold,      \* None until calibrated, then Calibrated(100 * value)
    raw_csv,            \* rows of raw_data.csv after the header
    filtered_csv,       \* rows of filtered_data.csv after the header
    win,                \* locals of _process_window between its steps
    \* -- history of the window cycle
    appendLog,          \* timestamps appended to the buffers, in order
    windows,            \* windows handed to _process_window
    emits,              \* windows whose rows were written
    slides,             \* slide steps executed
    lastWindow,         \* buffers as _process_window last saw them
    lastEmit,           \* rows the last window appended to filtered_csv
    preSlideLen,        \* buffer lengths just before the last slide
    \* -- the filter functions applied to one drawn input
    f_in,               \* the input drawn
    f_out               \* the results of the applications made, oldest first

envVars  == <<sent, lastMsg>>
cfgVars  == <<WINDOW_SIZE, OVERLAP>>
filtVars == <<f_in, f_out>>
recvVars == <<recv_running, sock_open, rpc, printed>>
bufVars  == <<timestamp_buffer, ecg_I_buffer, ecg_II_buffer, ecg_III_buffer, acc_mag_buffer>>
histVars == <<appendLog, windows, emits, slides, lastWindow, lastEmit, preSlideLen>>
procVars == <<running, sample_count, pc, data, bufVars, acc_threshold,
              raw_csv, filtered_csv, win, histVars>>
vars == <<cfgVars, filtVars, envVars, recvVars, data_queue, enq, procVars>>

None == [none |-> TRUE]
\* a calibrated acc_threshold: the percentile value times 100
Calibrated(v) == [value |-> v]
\* a received datagram
Datagram(message) == [message |-> message]

\* ---- datagrams ----------------------------------------------------------
Comma == [ch |-> ","]
Num(n) == [num |-> n]
Txt(s) == [txt |-> s]

RECURSIVE Join(_)
\* ",".join(fields) for a list of fields that are themselves character runs
Join(fields) ==
    IF Len(fields) = 0 THEN <<>>
    ELSE IF Len(fields) = 1 THEN fields[1]
    ELSE fields[1] \o <<Comma>> \o Join(Tail(fields))

\* the datagram the device sends for sample number ts with magnitude a
DeviceMessage(ts, a) ==
    Join(<< <<Num(ts)>>, <<Num(10 * ts + 1)>>, <<Num(10 * ts + 2)>>, <<Num(10 * ts + 3)>>,
            <<Num(0)>>, <<Num(0)>>, <<Num(a)>>, <<Num(a)>> >>)

NoiseMessages ==
    { <<Txt("ERROR"), Comma, Txt("disconnect")>>,          \* "ERROR,disconnect"
      <<Txt("SYSTEM"), Txt(" ready")>>,                    \* "SYSTEM ready"
      <<Num(1), Comma, Num(2), Comma, Num(3)>>,            \* "1,2,3"
      Join([i \in 1..9 |-> <<Num(i)>>]),                   \* nine numeric fields
      Join([i \in 1..8 |-> IF i = 5 THEN <<Txt("abc")>> ELSE <<Num(i)>>]),
      <<>> }                                               \* empty datagram

\* str.startswith
StartsWith(message, s) == Len(message) > 0 /\ message[1] = Txt(s)

RECURSIVE SplitFrom(_, _, _)
\* message.split(','): acc is the field being read
SplitFrom(message, i, acc) ==
    IF i > Len(message) THEN <<acc>>
    ELSE IF message[i] = Comma THEN <<acc>> \o SplitFrom(message, i + 1, <<>>)
    ELSE SplitFrom(message, i + 1, Append(acc, message[i]))

Split(message) == SplitFrom(message, 1, <<>>)

\* float(x) raises ValueError unless x is one numeric literal
FloatOk(x) == Len(x) = 1 /\ "num" \in DOMAIN x[1]
Float(x) == x[1].num

\* ---- configuration (class HolterConfig) ---------------------------------
DECOMPOSITION_LEVEL == 5
ACC_THRESHOLD_PERCENTILE == 75
\* the two multipliers, in tenths: 2.5 and 1.0
THRESHOLD_MULTIPLIER_HIGH_MOTION == 25
THRESHOLD_MULTIPLIER_LOW_MOTION == 10
\* number of taps of the 'db4' filters (WAVELET_TYPE)
FilterLen == 8

\* ---- UDPReceiver._receive_loop ------------------------------------------
\* one line of console output
Line(tag, text) == [tag |-> tag, text |-> text]

\* values = [float(x) for x in message.split(',')] ; None when float() raises
ParseValues(message) ==
    LET fields == Split(message)
    IN  IF \A i \in 1..Len(fields) : FloatOk(fields[i])
        THEN [i \in 1..Len(fields) |-> Float(fields[i])]
        ELSE None

\* HandleMessage with the field count tested as len(values) >= 8
HandleMessage_AtLeast8(message) ==
    IF StartsWith(message, "ERROR") \/ StartsWith(message, "SYSTEM")
    THEN /\ printed' = Line("SYSTEM", message)
         /\ UNCHANGED <<data_queue, enq>>
    ELSE LET values == ParseValues(message)
         IN  IF values = None
             THEN /\ printed' = Line("WARNING", message)
                  /\ UNCHANGED <<data_queue, enq>>
             ELSE IF Len(values) >= 8
             THEN /\ data_queue' = Append(data_queue, values)
                  /\ enq' = Append(enq, values)
                  /\ printed' = None
             ELSE /\ printed' = None
                  /\ UNCHANGED <<data_queue, enq>>

\* the body of the loop for one received datagram (lines 134-147)
HandleMessage(message) ==
    IF StartsWith(message, "ERROR") \/ StartsWith(message, "SYSTEM")
    THEN /\ printed' = Line("SYSTEM", message)
         /\ UNCHANGED <<data_queue, enq>>
    ELSE LET values == ParseValues(message)
         IN  IF values = None
             THEN /\ printed' = Line("WARNING", message)
                  /\ UNCHANGED <<data_queue, enq>>
             ELSE IF Len(values) = 8
             THEN /\ data_queue' = Append(data_queue, values)
                  /\ enq' = Append(enq, values)
                  /\ printed' = None
             ELSE /\ printed' = None
                  /\ UNCHANGED <<data_queue, enq>>

\* LoopTest that never reads the flag: while True
LoopTest_Forever == "recv"

\* while self.running: evaluated when an iteration ends
LoopTest == IF recv_running THEN "recv" ELSE "done"

\* what recvfrom can return next: the device's next sample, or another datagram
Incoming ==
    (IF sent < MaxSamples THEN {DeviceMessage(sent + 1, a) : a \in AccValues} ELSE {})
    \cup NoiseMessages

\* data, addr = self.sock.recvfrom(1024) returns, and the datagram is handled
R_Receive ==
    /\ rpc = "recv" /\ sock_open
    /\ \E message \in Incoming :
          /\ HandleMessage(message)
          /\ lastMsg' = Datagram(message)
          /\ sent' = IF message \in NoiseMessages THEN sent ELSE sent + 1
    /\ rpc' = LoopTest
    /\ UNCHANGED <<cfgVars, filtVars, recv_running, sock_open, procVars>>

\* except socket.timeout: continue
R_Timeout ==
    /\ rpc = "recv" /\ sock_open
    /\ rpc' = LoopTest
    /\ UNCHANGED <<cfgVars, filtVars, envVars, recv_running, sock_open, printed, data_queue, enq, procVars>>

\* R_Exception without the handler: the exception ends the receive thread
R_Exception_Fatal ==
    /\ rpc = "recv"
    /\ lastMsg' = None
    /\ rpc' = "done"
    /\ UNCHANGED <<cfgVars, filtVars, sent, recv_running, sock_open, printed, data_queue, enq,
                   procVars>>

\* except Exception as e: a transport fault, or recvfrom on the closed socket
R_Exception ==
    /\ rpc = "recv"
    /\ printed' = Line("ERROR", <<>>)
    /\ lastMsg' = None
    /\ rpc' = LoopTest
    /\ UNCHANGED <<cfgVars, filtVars, sent, recv_running, sock_open, data_queue, enq, procVars>>

\* ---- numpy / pywt helpers -----------------------------------------------
\* np.percentile(a, q), linear interpolation, times 100
Percentile100(a, q) ==
    LET sorted == SortSeq(a, LAMBDA x, y : x < y)
        pos == (Len(a) - 1) * q          \* 100 * the virtual index, 0-based
        lo == pos \div 100
        rem == pos % 100
    IN  IF rem = 0 THEN 100 * sorted[lo + 1]
        ELSE 100 * sorted[lo + 1] + rem * (sorted[lo + 2] - sorted[lo + 1])

\* detect_motion_segments with >= : a sample at the threshold counts as motion
detect_motion_segments_AtLeast(acc_magnitude, threshold) ==
    [i \in 1..Len(acc_magnitude) |-> 100 * acc_magnitude[i] >= threshold]

\* detect_motion_segments: acc_magnitude > threshold, threshold given times 100
detect_motion_segments(acc_magnitude, threshold) ==
    [i \in 1..Len(acc_magnitude) |-> 100 * acc_magnitude[i] > threshold]

\* number of True entries of a mask
CountTrue(mask) == Cardinality({i \in 1..Len(mask) : mask[i]})

\* HighMotion with the comparison written >= : exactly 30% counts as motion
HighMotion_AtLeast(motion_mask) == 10 * CountTrue(motion_mask) >= 3 * Len(motion_mask)

\* np.mean(motion_mask) > 0.3
HighMotion(motion_mask) == 10 * CountTrue(motion_mask) > 3 * Len(motion_mask)

\* Multiplier with the two branches exchanged
Multiplier_Swapped(motion_mask) ==
    IF HighMotion(motion_mask)
    THEN THRESHOLD_MULTIPLIER_LOW_MOTION
    ELSE THRESHOLD_MULTIPLIER_HIGH_MOTION

\* the multiplier of lines 88-91, in tenths
Multiplier(motion_mask) ==
    IF HighMotion(motion_mask)
    THEN THRESHOLD_MULTIPLIER_HIGH_MOTION
    ELSE THRESHOLD_MULTIPLIER_LOW_MOTION

\* length of one decomposition step's output (pywt, symmetric extension)
DwtLen(n) == (n + FilterLen - 1) \div 2

RECURSIVE BandLens(_, _)
\* lengths of the detail bands of pywt.wavedec, finest first
BandLens(n, level) ==
    IF level = 0 THEN <<>> ELSE <<DwtLen(n)>> \o BandLens(DwtLen(n), level - 1)

RECURSIVE RecLen(_, _)
\* length of pywt.waverec's output: bands are the detail lengths, coarsest first
RecLen(a, bands) ==
    IF Len(bands) = 0 THEN a
    ELSE LET d == bands[1]
             a1 == IF a = d + 1 THEN a - 1 ELSE a
         IN  RecLen(2 * a1 - FilterLen + 2, Tail(bands))

Reverse(s) == [i \in 1..Len(s) |-> s[Len(s) + 1 - i]]

\* AdjustLength that only truncates: a short reconstruction is returned as it is
AdjustLength_NoPad(filtered_signal, n) ==
    IF Len(filtered_signal) > n THEN SubSeq(filtered_signal, 1, n) ELSE filtered_signal

\* lines 100-103: filtered_signal[:n], or np.pad(..., (0, n - len), 'edge')
AdjustLength(filtered_signal, n) ==
    LET len == Len(filtered_signal)
    IN  IF len > n THEN SubSeq(filtered_signal, 1, n)
        ELSE IF len < n
        THEN filtered_signal \o [i \in 1..(n - len) |-> filtered_signal[len]]
        ELSE filtered_signal

\* adaptive_wavelet_filter.  A filtered value is kept symbolic: the denoised
\* value at position i of the reconstruction of a signal whose entry there is x,
\* thresholded with multiplier m (in tenths).
adaptive_wavelet_filter(ecg_signal, motion_mask, level) ==
    LET n == Len(ecg_signal)
        fine == BandLens(n, level)
        m == Multiplier(motion_mask)
        recLen == RecLen(fine[level], Reverse(fine))
        rec == [i \in 1..recLen |->
                  [i |-> i, x |-> ecg_signal[IF i <= n THEN i ELSE n], m |-> m]]
    IN  AdjustLength(rec, n)

\* ---- adaptive_wavelet_filter, band by band (lines 74-94) ------------------
\* one band of coefficients
Band(values) == [c |-> values]

\* pywt.threshold(band, threshold, mode='soft'), kept symbolic
SoftThreshold(band, threshold) == [c |-> band.c, t |-> threshold]

Abs(x) == IF x < 0 THEN -x ELSE x

\* 2 * np.median(np.abs(a)): the middle entry, or the mean of the two middle ones
Median2(a) ==
    LET sorted == SortSeq([i \in 1..Len(a) |-> Abs(a[i])], LAMBDA x, y : x < y)
        n == Len(a)
    IN  IF n % 2 = 1 THEN 2 * sorted[(n + 1) \div 2]
        ELSE sorted[n \div 2] + sorted[n \div 2 + 1]

\* threshold_base = sigma * sqrt(2 * log(n)) with sigma = median(|finest|) / 0.6745,
\* in units of sqrt(2 * log(n)) / (2 * 0.6745); log(1) = 0 makes it 0 for n = 1
ThresholdBase(finest, n) == IF n = 1 THEN 0 ELSE Median2(finest.c)

RECURSIVE Pow(_, _)
Pow(b, e) == IF e = 0 THEN 1 ELSE b * Pow(b, e - 1)

\* threshold_base * multiplier * 1.5 ** k for a decomposition of `level` levels,
\* scaled by 10 * 2 ** level so that it stays an integer
BandThreshold(threshold_base, multiplier, k, level) ==
    threshold_base * multiplier * Pow(3, k) * Pow(2, level - k)

\* the thresholds of bands 2..len(coeffs), band j being coeffs[j - 1] in Python
Thresholds(coeffs, motion_mask, n) ==
    LET len == Len(coeffs)
        threshold_base == ThresholdBase(coeffs[len], n)
    IN  [j \in 2..len |->
            BandThreshold(threshold_base, Multiplier(motion_mask), len - (j - 1), len - 1)]

\* FilterBands with the approximation soft-thresholded too, at the base threshold
FilterBands_AllBands(coeffs, motion_mask, n) ==
    LET thresholds == Thresholds(coeffs, motion_mask, n)
        threshold_base == ThresholdBase(coeffs[Len(coeffs)], n)
    IN  [j \in 1..Len(coeffs) |->
            IF j = 1
            THEN SoftThreshold(coeffs[1],
                    BandThreshold(threshold_base, Multiplier(motion_mask), 0, Len(coeffs) - 1))
            ELSE SoftThreshold(coeffs[j], thresholds[j])]

\* coeffs_filtered: [coeffs[0]] followed by the thresholded detail bands
FilterBands(coeffs, motion_mask, n) ==
    LET thresholds == Thresholds(coeffs, motion_mask, n)
    IN  [j \in 1..Len(coeffs) |->
            IF j = 1 THEN coeffs[1] ELSE SoftThreshold(coeffs[j], thresholds[j])]

\* what pywt.wavedec(signal, 'db4', level=level) can return: the band lengths
\* are fixed by the signal's length; the transform is linear, so a zero signal
\* has zero coefficients; the values of the finest band are otherwise free
WavedecOutcomes(signal, level) ==
    LET fine == BandLens(Len(signal), level)
        lens == <<fine[level]>> \o Reverse(fine)    \* cA_L, cD_L, ..., cD_1
        zero == \A i \in 1..Len(signal) : signal[i] = 0
    IN  IF zero
        THEN { [j \in 1..(level + 1) |-> Band([k \in 1..lens[j] |-> 0])] }
        ELSE { [j \in 1..(level + 1) |->
                  IF j = level + 1 THEN Band(finest) ELSE Band([k \in 1..lens[j] |-> k])] :
               finest \in [1..lens[level + 1] -> CoefValues] }

\* one run of adaptive_wavelet_filter on a signal whose decomposition is coeffs
FilterRun(signal, coeffs, motion_mask) ==
    LET n == Len(signal)
        level == Len(coeffs) - 1
        coeffs_filtered == FilterBands(coeffs, motion_mask, n)
        recLen == RecLen(Len(coeffs_filtered[1].c),
                         [j \in 1..level |-> Len(coeffs_filtered[j + 1].c)])
        rec == [i \in 1..recLen |-> [i |-> i, bands |-> coeffs_filtered]]
    IN  [motion_mask |-> motion_mask,
         thresholds |-> Thresholds(coeffs, motion_mask, n),
         coeffs_filtered |-> coeffs_filtered,
         reconstructed |-> recLen,
         filtered_signal |-> AdjustLength(rec, n)]

\* LastSlice that keeps everything: the slide forgotten
LastSlice_Whole(s, k) == s

\* Python's s[-k:] for k >= 0
LastSlice(s, k) ==
    IF k = 0 THEN s
    ELSE IF k >= Len(s) THEN s
    ELSE SubSeq(s, Len(s) - k + 1, Len(s))

\* ---- HolterSystem._processing_loop / WaveletProcessor -------------------
Live == pc \in {"get", "save", "append", "window", "emit", "slide", "slid", "count"}

\* QueueGet taking the newest item instead of the oldest
QueueGet_Lifo(q) == [item |-> q[Len(q)], rest |-> SubSeq(q, 1, Len(q) - 1)]

\* queue.Queue.get on a non-empty queue: the oldest item, and what is left
QueueGet(q) == [item |-> Head(q), rest |-> Tail(q)]

\* IsFull one sample early
IsFull_OneEarly(length, window_size) == length >= window_size - 1

\* if len(self.ecg_I_buffer) >= HolterConfig.WINDOW_SIZE
IsFull(length, window_size) == length >= window_size

\* CalibratedThreshold without the test for None: recalibrated on every window
CalibratedThreshold_EveryWindow(current, acc_mag) ==
    Calibrated(Percentile100(acc_mag, ACC_THRESHOLD_PERCENTILE))

\* if self.acc_threshold is None: self.acc_threshold = np.percentile(...)
CalibratedThreshold(current, acc_mag) ==
    IF current = None
    THEN Calibrated(Percentile100(acc_mag, ACC_THRESHOLD_PERCENTILE))
    ELSE current

\* data = self.data_queue.get(timeout=1.0) returns a sample
P_Get ==
    /\ pc = "get" /\ running
    /\ data_queue # <<>>
    /\ data' = QueueGet(data_queue).item
    /\ data_queue' = QueueGet(data_queue).rest
    /\ pc' = "save"
    /\ UNCHANGED <<cfgVars, filtVars, envVars, recvVars, enq, running, sample_count, bufVars,
                   acc_threshold, raw_csv, filtered_csv, win, histVars>>

\* except queue.Empty: continue
P_Empty ==
    /\ pc = "get" /\ running
    /\ data_queue = <<>>
    /\ UNCHANGED vars

\* P_SaveRaw that writes no row
P_SaveRaw_NoRow ==
    /\ pc = "save"
    /\ pc' = "append"
    /\ UNCHANGED <<cfgVars, filtVars, envVars, recvVars, data_queue, enq, running, sample_count, data,
                   bufVars, acc_threshold, raw_csv, filtered_csv, win, histVars>>

\* self._save_raw_sample(data)
P_SaveRaw ==
    /\ pc = "save"
    /\ raw_csv' = Append(raw_csv, data)
    /\ pc' = "append"
    /\ UNCHANGED <<cfgVars, filtVars, envVars, recvVars, data_queue, enq, running, sample_count, data,
                   bufVars, acc_threshold, filtered_csv, win, histVars>>

\* the five appends of process_sample, and its test of the buffer length
P_Append ==
    /\ pc = "append"
    /\ timestamp_buffer' = Append(timestamp_buffer, data[1])
    /\ ecg_I_buffer' = Append(ecg_I_buffer, data[2])
    /\ ecg_II_buffer' = Append(ecg_II_buffer, data[3])
    /\ ecg_III_buffer' = Append(ecg_III_buffer, data[4])
    /\ acc_mag_buffer' = Append(acc_mag_buffer, data[8])
    /\ pc' = IF IsFull(Len(ecg_I_buffer'), WINDOW_SIZE) THEN "window" ELSE "count"
    /\ appendLog' = Append(appendLog, data[1])
    /\ UNCHANGED <<cfgVars, filtVars, envVars, recvVars, data_queue, enq, running, sample_count, data,
                   acc_threshold, raw_csv, filtered_csv, win, windows, emits, slides,
                   lastWindow, lastEmit, preSlideLen>>

\* lines 256-270: one mask from the magnitudes, then the three leads filtered
FilterWindow(timestamps, ecg_I, ecg_II, ecg_III, acc_mag, threshold) ==
    LET motion_mask == detect_motion_segments(acc_mag, threshold.value)
    IN  [timestamps |-> timestamps,
         motion_mask |-> motion_mask,
         ecg_I_filt |-> adaptive_wavelet_filter(ecg_I, motion_mask, DECOMPOSITION_LEVEL),
         ecg_II_filt |-> adaptive_wavelet_filter(ecg_II, motion_mask, DECOMPOSITION_LEVEL),
         ecg_III_filt |-> adaptive_wavelet_filter(ecg_III, motion_mask, DECOMPOSITION_LEVEL)]

\* _process_window up to the three filtered leads
P_Window ==
    /\ pc = "window"
    /\ LET threshold == CalibratedThreshold(acc_threshold, acc_mag_buffer)
       IN  /\ acc_threshold' = threshold
           /\ win' = FilterWindow(timestamp_buffer, ecg_I_buffer, ecg_II_buffer,
                                  ecg_III_buffer, acc_mag_buffer, threshold)
    /\ windows' = windows + 1
    /\ lastWindow' = [timestamps |-> timestamp_buffer, ecg_I |-> ecg_I_buffer,
                      ecg_II |-> ecg_II_buffer, ecg_III |-> ecg_III_buffer,
                      acc_mag |-> acc_mag_buffer]
    /\ pc' = "emit"
    /\ UNCHANGED <<cfgVars, filtVars, envVars, recvVars, data_queue, enq, running, sample_count, data,
                   bufVars, raw_csv, filtered_csv, appendLog, emits, slides, lastEmit,
                   preSlideLen>>

\* NewRows with n_new_samples = len(timestamps): the overlap not subtracted
NewRows_WholeWindow(w, overlap) ==
    [i \in 1..Len(w.timestamps) |->
        [timestamp |-> w.timestamps[i], ECG_I_filt |-> w.ecg_I_filt[i],
         ECG_II_filt |-> w.ecg_II_filt[i], ECG_III_filt |-> w.ecg_III_filt[i]]]

\* for i in range(n_new_samples): the rows _process_window appends
NewRows(w, overlap) ==
    LET n_new_samples == Len(w.timestamps) - overlap
    IN  [i \in 1..n_new_samples |->
            [timestamp |-> w.timestamps[i], ECG_I_filt |-> w.ecg_I_filt[i],
             ECG_II_filt |-> w.ecg_II_filt[i], ECG_III_filt |-> w.ecg_III_filt[i]]]

P_Emit ==
    /\ pc = "emit"
    /\ filtered_csv' = filtered_csv \o NewRows(win, OVERLAP)
    /\ lastEmit' = NewRows(win, OVERLAP)
    /\ emits' = emits + 1
    /\ pc' = "slide"
    /\ UNCHANGED <<cfgVars, filtVars, envVars, recvVars, data_queue, enq, running, sample_count, data,
                   bufVars, acc_threshold, raw_csv, win, appendLog, windows, slides,
                   lastWindow, preSlideLen>>

\* P_Slide that leaves acc_mag_buffer unsliced
P_Slide_AccKept ==
    /\ pc = "slide"
    /\ preSlideLen' = [b \in 1..5 |-> Len(bufVars[b])]
    /\ timestamp_buffer' = LastSlice(timestamp_buffer, OVERLAP)
    /\ ecg_I_buffer' = LastSlice(ecg_I_buffer, OVERLAP)
    /\ ecg_II_buffer' = LastSlice(ecg_II_buffer, OVERLAP)
    /\ ecg_III_buffer' = LastSlice(ecg_III_buffer, OVERLAP)
    /\ slides' = slides + 1
    /\ win' = None
    /\ pc' = "slid"
    /\ UNCHANGED <<cfgVars, filtVars, envVars, recvVars, data_queue, enq, running, sample_count, data,
                   acc_mag_buffer, acc_threshold, raw_csv, filtered_csv, appendLog, windows,
                   emits, lastWindow, lastEmit>>

\* the five slices buffer[-OVERLAP:] of process_sample
P_Slide ==
    /\ pc = "slide"
    /\ preSlideLen' = [b \in 1..5 |-> Len(bufVars[b])]
    /\ timestamp_buffer' = LastSlice(timestamp_buffer, OVERLAP)
    /\ ecg_I_buffer' = LastSlice(ecg_I_buffer, OVERLAP)
    /\ ecg_II_buffer' = LastSlice(ecg_II_buffer, OVERLAP)
    /\ ecg_III_buffer' = LastSlice(ecg_III_buffer, OVERLAP)
    /\ acc_mag_buffer' = LastSlice(acc_mag_buffer, OVERLAP)
    /\ slides' = slides + 1
    /\ win' = None
    /\ pc' = "slid"
    /\ UNCHANGED <<cfgVars, filtVars, envVars, recvVars, data_queue, enq, running, sample_count, data,
                   acc_threshold, raw_csv, filtered_csv, appendLog, windows, emits,
                   lastWindow, lastEmit>>

\* self.sample_count += 1, back to the top of the loop
P_Count ==
    /\ pc \in {"count", "slid"}
    /\ sample_count' = sample_count + 1
    /\ data' = None
    /\ pc' = "get"
    /\ UNCHANGED <<cfgVars, filtVars, envVars, recvVars, data_queue, enq, running, bufVars,
                   acc_threshold, raw_csv, filtered_csv, win, histVars>>

\* an exception raised inside _process_window: nothing in process_sample or
\* _processing_loop catches it, the main thread ends and the process exits,
\* which ends the daemon receiver thread too
P_Raise ==
    /\ pc \in {"window", "emit"}
    /\ pc' = "crashed"
    /\ rpc' = "done"
    /\ UNCHANGED <<cfgVars, filtVars, envVars, recv_running, sock_open, printed, data_queue, enq, running, sample_count, data,
                   bufVars, acc_threshold, raw_csv, filtered_csv, win, histVars>>

\* except KeyboardInterrupt: self.stop()
P_Interrupt ==
    /\ Live
    /\ running' = FALSE
    /\ recv_running' = FALSE
    /\ sock_open' = FALSE
    /\ pc' = "stopped"
    /\ UNCHANGED <<cfgVars, filtVars, envVars, rpc, printed, data_queue, enq, sample_count, data,
                   bufVars, acc_threshold, raw_csv, filtered_csv, win, histVars>>

\* ---- specifications -----------------------------------------------------
\* state after HolterSystem() and start(), the configuration left open
InitState ==
    /\ sent = 0 /\ lastMsg = None
    /\ recv_running = TRUE /\ sock_open = TRUE /\ rpc = "recv" /\ printed = None
    /\ data_queue = <<>> /\ enq = <<>>
    /\ running = TRUE /\ sample_count = 0 /\ pc = "get" /\ data = None
    /\ timestamp_buffer = <<>> /\ ecg_I_buffer = <<>> /\ ecg_II_buffer = <<>>
    /\ ecg_III_buffer = <<>> /\ acc_mag_buffer = <<>>
    /\ acc_threshold = None
    /\ raw_csv = <<>> /\ filtered_csv = <<>> /\ win = None
    /\ appendLog = <<>> /\ windows = 0 /\ emits = 0 /\ slides = 0 /\ lastWindow = None /\ lastEmit = <<>>
    /\ preSlideLen = None

\* configurations with a positive overlap, as the shipped 500 / 250
Init ==
    /\ WINDOW_SIZE \in 2..MaxWindow
    /\ OVERLAP \in 1..(WINDOW_SIZE - 1)
    /\ f_in = None /\ f_out = <<>>
    /\ InitState

\* every configuration with 0 <= OVERLAP < WINDOW_SIZE
InitCfg ==
    /\ WINDOW_SIZE \in 2..MaxWindow
    /\ OVERLAP \in 0..(WINDOW_SIZE - 1)
    /\ f_in = None /\ f_out = <<>>
    /\ InitState

Next ==
    \/ R_Receive \/ R_Timeout \/ R_Exception
    \/ P_Get \/ P_Empty \/ P_SaveRaw \/ P_Append \/ P_Window \/ P_Emit \/ P_Slide
    \/ P_Count \/ P_Raise \/ P_Interrupt

Spec == Init /\ [][Next]_vars

SpecCfg == InitCfg /\ [][Next]_vars

\* ---- the filter functions on their own ------------------------------------
sysVars == <<cfgVars, envVars, recvVars, data_queue, enq, procVars>>

\* a signal and one decomposition of it
FilterCases ==
    UNION { UNION { { [kind |-> "filter", signal |-> signal, coeffs |-> coeffs] :
                      coeffs \in WavedecOutcomes(signal, level) } :
                    signal \in UNION { [1..n -> SignalValues] : n \in 1..MaxLen } } :
            level \in 1..MaxLevel }

\* a reconstruction of any length against the length asked for
AdjustCases ==
    { [kind |-> "adjust", filtered_signal |-> [i \in 1..len |-> [i |-> i]], n |-> n] :
      len \in 1..(MaxLen + 2), n \in 1..MaxLen }

\* a window of magnitudes, met before or after the calibration
WindowCases ==
    { [kind |-> "window", acc_mag |-> acc_mag, acc_threshold |-> threshold] :
      acc_mag \in UNION { [1..n -> AccValues] : n \in 1..MaxMask },
      threshold \in {None, Calibrated(0), Calibrated(50), Calibrated(100)} }

\* a first window of the configured size: k samples in motion, the others at rest
FullWindowCases(window_size) ==
    { [kind |-> "window", acc_mag |-> [i \in 1..window_size |-> IF i <= k THEN 1 ELSE 0],
       acc_threshold |-> None] : k \in 0..window_size }

\* motion masks of length n, by the number of flagged samples
MasksOfLen(n) == { [i \in 1..n |-> i <= k] : k \in 0..n }

\* adaptive_wavelet_filter(signal, motion_mask, ...): the same signal filtered
\* once more with a mask of its length
F_Filter ==
    /\ f_in.kind = "filter" /\ Len(f_out) < 2
    /\ \E motion_mask \in MasksOfLen(Len(f_in.signal)) :
          f_out' = Append(f_out, FilterRun(f_in.signal, f_in.coeffs, motion_mask))
    /\ UNCHANGED <<f_in, sysVars>>

\* lines 99-103 on a reconstruction
F_Adjust ==
    /\ f_in.kind = "adjust" /\ f_out = <<>>
    /\ f_out' = <<AdjustLength(f_in.filtered_signal, f_in.n)>>
    /\ UNCHANGED <<f_in, sysVars>>

\* lines 252-270 on a window of the device's samples 1..n
F_Window ==
    /\ f_in.kind = "window" /\ f_out = <<>>
    /\ LET n == Len(f_in.acc_mag)
           threshold == CalibratedThreshold(f_in.acc_threshold, f_in.acc_mag)
       IN  f_out' = << [acc_threshold |-> threshold,
                        win |-> FilterWindow([i \in 1..n |-> i],
                                             [i \in 1..n |-> 10 * i + 1],
                                             [i \in 1..n |-> 10 * i + 2],
                                             [i \in 1..n |-> 10 * i + 3],
                                             f_in.acc_mag, threshold)] >>
    /\ UNCHANGED <<f_in, sysVars>>

InitFilter ==
    /\ WINDOW_SIZE = 500 /\ OVERLAP = 250
    /\ InitState
    /\ f_in \in FilterCases \cup AdjustCases \cup WindowCases \cup FullWindowCases(WINDOW_SIZE)
    /\ f_out = <<>>

NextFilter == F_Filter \/ F_Adjust \/ F_Window

SpecFilter == InitFilter /\ [][NextFilter]_vars

\* recvfrom on the socket stop() closed does return (it raises)
ClosedSocketRaises == R_Exception /\ ~sock_open

\* Spec with the scheduling the receive thread gets: the call it is blocked in
\* on the closed socket returns, at the latest when its one second timeout ends
FairSpec == Init /\ [][Next]_vars /\ WF_vars(ClosedSocketRaises)

\* ---- claims -------------------------------------------------------------
Min(a, b) == IF a < b THEN a ELSE b

\* a window's rows have just been written
JustEmitted == pc = "slide"

\* C1: when a window is full, the rows written for it are exactly the last
\* WINDOW_SIZE - OVERLAP entries of the window, in window order, each filtered
\* value next to the timestamp of its own sample.
C1_EmitsLastEntries ==
    JustEmitted =>
        LET n == Len(lastWindow.timestamps)
            k == n - OVERLAP
        IN  /\ Len(lastEmit) = k
            /\ \A j \in 1..k :
                  /\ lastEmit[j].timestamp = lastWindow.timestamps[OVERLAP + j]
                  /\ lastEmit[j].ECG_I_filt.x = lastWindow.ecg_I[OVERLAP + j]
                  /\ lastEmit[j].ECG_II_filt.x = lastWindow.ecg_II[OVERLAP + j]
                  /\ lastEmit[j].ECG_III_filt.x = lastWindow.ecg_III[OVERLAP + j]

\* C2: every completed window appends exactly WINDOW_SIZE - OVERLAP rows to
\* the filtered sink, the first window and every later one.
C2_RowsPerWindow ==
    /\ Len(filtered_csv) = emits * (WINDOW_SIZE - OVERLAP)
    /\ emits > 0 => Len(lastEmit) = WINDOW_SIZE - OVERLAP

C2_Witness == emits >= 2 /\ JustEmitted /\ Len(filtered_csv) = 2 * Len(lastEmit)

\* C3: after the slide that follows a processed window, every buffer's length
\* is min(OVERLAP, its length before the slide), for 0 <= OVERLAP < WINDOW_SIZE.
C3_SlideLength ==
    pc = "slid" =>
        \A b \in 1..5 : Len(bufVars[b]) = Min(OVERLAP, preSlideLen[b])

\* acceleration magnitudes of the first WINDOW_SIZE raw rows: the first window
FirstWindowAcc == [i \in 1..WINDOW_SIZE |-> raw_csv[i][8]]

\* C4: the motion threshold is unset until the first window is processed, is
\* then that window's percentile, and keeps that value in every later state,
\* whatever the later windows contain.
C4_ThresholdSetOnce ==
    IF windows = 0
    THEN acc_threshold = None
    ELSE acc_threshold = Calibrated(Percentile100(FirstWindowAcc, ACC_THRESHOLD_PERCENTILE))

\* a later window whose own percentile differs from the calibrated threshold
C4_Witness ==
    /\ windows >= 2
    /\ Percentile100(lastWindow.acc_mag, ACC_THRESHOLD_PERCENTILE) # acc_threshold.value

\* samples taken off the queue so far
Dequeued == Len(enq) - Len(data_queue)

Terminated == pc \in {"stopped", "crashed"}

\* C5 as stated: every sample the receive loop put on the queue has exactly
\* one row in the raw sink; checked where the program has ended.
C5_RowForEveryAccepted ==
    Terminated =>
        \A k \in 1..Len(enq) :
            Cardinality({r \in 1..Len(raw_csv) : raw_csv[r] = enq[k]}) = 1

\* C5 amended: the raw rows are, in order, the samples taken off the queue, one
\* row each (only a sample dequeued but not yet saved has none); a sample's row
\* is written before the sample is appended to the buffers and before a window
\* holding it is processed, and it is there when that processing has raised.
C5_RowBeforeWindowing ==
    /\ Len(raw_csv) <= Len(enq)
    /\ raw_csv = SubSeq(enq, 1, Len(raw_csv))
    /\ Dequeued - Len(raw_csv) \in {0, 1}
    /\ (Dequeued - Len(raw_csv) = 1) => (pc \in {"save", "stopped"})
    /\ Len(appendLog) <= Len(raw_csv)
    /\ \A k \in 1..Len(appendLog) : raw_csv[k][1] = appendLog[k]
    /\ pc = "append" => Len(raw_csv) = Len(appendLog) + 1 /\ raw_csv[Len(raw_csv)] = data
    /\ pc \in {"window", "emit", "crashed"} =>
          \A i \in 1..Len(timestamp_buffer) :
              \E r \in 1..Len(raw_csv) : raw_csv[r][1] = timestamp_buffer[i]

\* the processing of a window raised, and the sample that completed it has its row
C5_Witness ==
    /\ pc = "crashed"
    /\ raw_csv[Len(raw_csv)] = data
    /\ Len(raw_csv) = Len(timestamp_buffer)

\* the message is control text: it begins with ERROR or SYSTEM
IsControl(message) == StartsWith(message, "ERROR") \/ StartsWith(message, "SYSTEM")

\* the message splits on commas into exactly 8 fields that all parse as floats
EightFloats(message) ==
    /\ Len(Split(message)) = 8
    /\ \A i \in 1..8 : FloatOk(Split(message)[i])

\* this step is the receive loop handling a datagram
ReceiveStep == lastMsg' # None /\ (lastMsg' # lastMsg \/ sent' # sent)

\* C6: a received message is put on the queue if and only if it does not
\* begin with ERROR or SYSTEM and has exactly 8 fields that all parse as
\* floats; every other message leaves the queue unchanged.
C6_Step ==
    ReceiveStep =>
        LET message == lastMsg'.message
        IN  IF ~IsControl(message) /\ EightFloats(message)
            THEN data_queue' = Append(data_queue,
                                      [i \in 1..8 |-> Float(Split(message)[i])])
            ELSE data_queue' = data_queue

C6_QueuedIffEightFloats == [][C6_Step]_vars

\* a sample was queued earlier, and the nine-field numeric datagram was just dropped
C6_Witness ==
    /\ Len(enq) > 0
    /\ lastMsg # None
    /\ Len(Split(lastMsg.message)) = 9
    /\ \A i \in 1..9 : FloatOk(Split(lastMsg.message)[i])
    /\ data_queue # <<>> /\ data_queue[Len(data_queue)] = enq[Len(enq)]

\* C7: every malformed message that is dropped gets a warning line, whether a
\* field is not numeric or the fields are numeric but not 8 of them.
C7_Step ==
    ReceiveStep =>
        LET message == lastMsg'.message
        IN  (~IsControl(message) /\ ~EightFloats(message))
                => printed' = Line("WARNING", message)

C7_DroppedIsWarned == [][C7_Step]_vars

\* the sample process_sample took off the queue and has not saved yet
InFlight == IF Dequeued > Len(raw_csv) THEN <<data>> ELSE <<>>

\* C8: samples are processed in the order the listener queued them, none
\* twice, none skipped, none reordered: the raw rows and the appends both
\* follow the queue's history, and what is not yet processed is still queued
\* in that order.
C8_Fifo ==
    /\ enq = raw_csv \o InFlight \o data_queue
    /\ Len(appendLog) <= Len(enq)
    /\ \A k \in 1..Len(appendLog) : appendLog[k] = enq[k][1]
    /\ Len(raw_csv) - Len(appendLog) \in {0, 1}

\* the listener ran ahead: two samples processed while two more wait
C8_Witness ==
    /\ Len(appendLog) >= 2
    /\ Len(data_queue) >= 2
    /\ pc = "save"

\* process_sample is not running: before a call or after it returned
BetweenCalls == pc \in {"get", "save", "slid", "count"}

\* C9: before and after each process_sample call the five buffers have one
\* length, and the entries at one index are the fields of one queued sample.
C9_BuffersAligned ==
    BetweenCalls =>
        /\ \A b \in 1..5 : Len(bufVars[b]) = Len(timestamp_buffer)
        /\ \A i \in 1..Len(timestamp_buffer) :
              \E k \in 1..Len(enq) :
                  /\ enq[k][1] = timestamp_buffer[i]
                  /\ enq[k][2] = ecg_I_buffer[i]
                  /\ enq[k][3] = ecg_II_buffer[i]
                  /\ enq[k][4] = ecg_III_buffer[i]
                  /\ enq[k][8] = acc_mag_buffer[i]

\* after a slide, with the retained overlap in the buffers
C9_Witness == pc = "slid" /\ Len(timestamp_buffer) >= 2 /\ slides >= 2

\* the phase of the window cycle the processing loop is in
Phase ==
    CASE pc \in {"get", "save", "append", "count"} -> "FILLING"
      [] pc = "window" -> "PROCESSING"
      [] pc \in {"emit", "slide"} -> "EMITTING"
      [] pc = "slid" -> "SLID"
      [] OTHER -> "SHUTDOWN"

\* the phase changes the cycle allows
CycleOrder ==
    { <<"FILLING", "PROCESSING">>, <<"PROCESSING", "EMITTING">>,
      <<"EMITTING", "SLID">>, <<"SLID", "FILLING">> }

C10_Step ==
    /\ Phase' = Phase \/ Phase' = "SHUTDOWN" \/ <<Phase, Phase'>> \in CycleOrder
    \* a window is processed only on a buffer of at least WINDOW_SIZE samples
    /\ windows' # windows => Len(timestamp_buffer) >= WINDOW_SIZE
    \* rows are written only after the processing, the slide only after the rows
    /\ emits' # emits => Phase = "EMITTING" /\ emits' = windows
    /\ slides' # slides => Phase = "EMITTING" /\ slides' = emits /\ Phase' = "SLID"
    \* a sample is appended only when every processed window has been slid
    /\ appendLog' # appendLog => slides = windows

C10_Counts ==
    /\ slides <= emits /\ emits <= windows /\ windows <= slides + 1
    /\ Phase = "FILLING" => slides = windows
    /\ Phase = "SLID" => slides = windows
    /\ Phase = "PROCESSING" => Len(timestamp_buffer) >= WINDOW_SIZE /\ windows = slides

\* C10: each window cycle is FILLING -> PROCESSING -> EMITTING -> SLID ->
\* FILLING; one slide per full window, after its processing and its rows and
\* before the next append; no window is processed on fewer than WINDOW_SIZE
\* samples.
C10_WindowCycle == []C10_Counts /\ [][C10_Step]_vars

\* two cycles are complete and the buffer has filled again
C10_Witness == windows = 2 /\ slides = 2 /\ Phase = "PROCESSING"

\* the stop flag is set: stop() has run
Cancelled == ~running

RawRowsKept == \A k \in 1..Len(raw_csv) : Len(raw_csv') >= k /\ raw_csv'[k] = raw_csv[k]

C11_Step ==
    \* raw rows are never changed or removed, and none is added after stop()
    /\ RawRowsKept
    /\ Cancelled => raw_csv' = raw_csv /\ filtered_csv' = filtered_csv
    \* rows are written only for a window of at least WINDOW_SIZE samples
    /\ filtered_csv' # filtered_csv => Len(timestamp_buffer) >= WINDOW_SIZE

\* C11: once the stop flag is set both loops end; no filtered row is ever
\* written for a window short of WINDOW_SIZE samples; the raw rows written
\* before the cancellation stay as they are.
C11_Cancellation ==
    /\ (Cancelled ~> (pc = "stopped" /\ rpc = "done"))
    /\ [][C11_Step]_vars

\* cancelled in the middle of filling a window, with raw rows on disk, both loops ended
C11_Witness ==
    /\ Cancelled /\ pc = "stopped" /\ rpc = "done"
    /\ Len(raw_csv) > 0 /\ Len(timestamp_buffer) > 0 /\ Len(timestamp_buffer) < WINDOW_SIZE
    /\ filtered_csv = <<>>

\* the last iteration handled a control message, a malformed message or an exception
AfterBadEvent ==
    \/ printed # None
    \/ lastMsg # None /\ lastMsg.message \in NoiseMessages

C12_Step ==
    \* whatever the iteration met, the loop is back in recvfrom while the flag is set
    /\ (rpc = "recv" /\ recv_running' /\ pc' # "crashed") => (rpc' = "recv" /\ sock_open')
    \* and a valid message that follows a bad event is queued
    /\ (AfterBadEvent /\ ReceiveStep /\ EightFloats(lastMsg'.message))
          => data_queue' = Append(data_queue, ParseValues(lastMsg'.message))

\* C12: no single ingestion event halts the listener: after a control message,
\* a malformed message, a timeout or an exception the loop is still receiving
\* and queues the next valid message, as long as the stop flag is not set.
C12_ListenerSurvives == [][C12_Step]_vars

\* an exception was just handled and the loop is receiving again, samples still to come
C12_Witness ==
    /\ printed = Line("ERROR", <<>>)
    /\ rpc = "recv" /\ recv_running /\ sock_open
    /\ Len(enq) > 0 /\ sent < MaxSamples

\* ---- claims about adaptive_wavelet_filter and the window filter -----------
WindowFiltered == f_in.kind = "window" /\ f_out # <<>>

\* C13: for every input length N and level L the filter returns exactly N
\* values: a longer reconstruction is cut to its first N values, a shorter one
\* is extended by repeating its last value.
C13_ExactLength ==
    /\ f_in.kind = "filter" =>
          \A r \in 1..Len(f_out) :
             /\ Len(f_out[r].filtered_signal) = Len(f_in.signal)
             /\ \A i \in 1..Len(f_in.signal) : f_out[r].filtered_signal[i].i = i
    /\ (f_in.kind = "adjust" /\ f_out # <<>>) =>
          LET rec == f_in.filtered_signal
          IN  /\ Len(f_out[1]) = f_in.n
              /\ \A i \in 1..f_in.n : f_out[1][i] = rec[Min(i, Len(rec))]
    /\ WindowFiltered =>
          /\ Len(f_out[1].win.ecg_I_filt) = Len(f_in.acc_mag)
          /\ Len(f_out[1].win.ecg_II_filt) = Len(f_in.acc_mag)
          /\ Len(f_out[1].win.ecg_III_filt) = Len(f_in.acc_mag)

\* a reconstruction two values short was adjusted
C13_Witness ==
    /\ f_in.kind = "adjust" /\ f_out # <<>>
    /\ Len(f_in.filtered_signal) + 2 = f_in.n

\* the pairs of runs made on the drawn signal: the first in motion, the second at rest
HighThenLow ==
    /\ f_in.kind = "filter" /\ Len(f_out) = 2
    /\ HighMotion(f_out[1].motion_mask) /\ ~HighMotion(f_out[2].motion_mask)

DrawnBase == ThresholdBase(f_in.coeffs[Len(f_in.coeffs)], Len(f_in.signal))

\* C14 as stated: every detail band's threshold of the run in motion is
\* strictly greater than the same band's threshold of the run at rest.
C14_StrictlyGreater ==
    HighThenLow =>
        \A j \in 2..Len(f_in.coeffs) : f_out[1].thresholds[j] > f_out[2].thresholds[j]

\* C14 amended: the threshold in motion is never smaller, it is 2.5 times the
\* one at rest, and it is strictly greater exactly when threshold_base is positive.
C14_GreaterUnlessZero ==
    HighThenLow =>
        \A j \in 2..Len(f_in.coeffs) :
            LET high == f_out[1].thresholds[j]
                low == f_out[2].thresholds[j]
            IN  /\ high >= low
                /\ THRESHOLD_MULTIPLIER_LOW_MOTION * high = THRESHOLD_MULTIPLIER_HIGH_MOTION * low
                /\ high > low <=> DrawnBase > 0
                /\ DrawnBase = 0 => high = 0 /\ low = 0

\* two runs, in motion and at rest, on a signal with a positive threshold_base
C14_Witness == HighThenLow /\ DrawnBase > 0 /\ Len(f_in.coeffs) > 2

\* C16: the approximation band given to the reconstruction is the one the
\* decomposition produced; the detail bands, and only they, are thresholded.
C16_ApproximationKept ==
    f_in.kind = "filter" =>
        \A r \in 1..Len(f_out) :
            LET coeffs_filtered == f_out[r].coeffs_filtered
            IN  /\ Len(coeffs_filtered) = Len(f_in.coeffs)
                /\ coeffs_filtered[1] = f_in.coeffs[1]
                /\ \A j \in 2..Len(f_in.coeffs) :
                      coeffs_filtered[j] = SoftThreshold(f_in.coeffs[j], f_out[r].thresholds[j])

\* a run with a positive threshold on two detail bands of a non-zero signal
C16_Witness ==
    /\ f_in.kind = "filter" /\ Len(f_out) > 0
    /\ Len(f_in.coeffs) = 3 /\ f_out[1].thresholds[2] > 0
    /\ f_out[1].coeffs_filtered[1] = f_in.coeffs[1]

\* samples of the drawn window above the threshold in force
Flagged ==
    LET threshold == f_out[1].acc_threshold.value
    IN  Cardinality({i \in 1..Len(f_in.acc_mag) : 100 * f_in.acc_mag[i] > threshold})

\* all values of the three filtered leads carry multiplier m
LeadsUse(m) ==
    LET w == f_out[1].win
    IN  \A i \in 1..Len(f_in.acc_mag) :
            w.ecg_I_filt[i].m = m /\ w.ecg_II_filt[i].m = m /\ w.ecg_III_filt[i].m = m

\* C17: the three leads of a window are filtered with one mask, and with the
\* high multiplier exactly when strictly more than 30% of the window's samples
\* are above the calibrated threshold; at exactly 30% the low one is used.
C17_OneMaskStrictRatio ==
    WindowFiltered =>
        /\ f_out[1].win.motion_mask =
              [i \in 1..Len(f_in.acc_mag) |-> 100 * f_in.acc_mag[i] > f_out[1].acc_threshold.value]
        /\ IF 10 * Flagged > 3 * Len(f_in.acc_mag)
           THEN LeadsUse(THRESHOLD_MULTIPLIER_HIGH_MOTION)
           ELSE LeadsUse(THRESHOLD_MULTIPLIER_LOW_MOTION)

\* a window of ten samples, exactly three of them above the threshold
C17_Witness ==
    /\ WindowFiltered /\ Len(f_in.acc_mag) = 10 /\ Flagged = 3
    /\ LeadsUse(THRESHOLD_MULTIPLIER_LOW_MOTION)

\* a first window: no threshold yet; its size, like the configured 500, a multiple of 4
FirstWindowFiltered ==
    WindowFiltered /\ f_in.acc_threshold = None /\ Len(f_in.acc_mag) % 4 = 0

\* C20: in the first window the threshold is the window's own 75th percentile,
\* so at most a quarter of its samples are flagged and the low multiplier is
\* used whatever the magnitudes; the high one needs a threshold calibrated before.
C20_FirstWindowLow ==
    /\ FirstWindowFiltered =>
          /\ f_out[1].acc_threshold =
                Calibrated(Percentile100(f_in.acc_mag, ACC_THRESHOLD_PERCENTILE))
          /\ 4 * Flagged <= Len(f_in.acc_mag)
          /\ LeadsUse(THRESHOLD_MULTIPLIER_LOW_MOTION)
    /\ (WindowFiltered /\ LeadsUse(THRESHOLD_MULTIPLIER_HIGH_MOTION) /\ Len(f_in.acc_mag) % 4 = 0)
          => f_in.acc_threshold # None

\* a first window of the configured size with exactly a quarter of it flagged
C20_Witness ==
    /\ FirstWindowFiltered /\ Len(f_in.acc_mag) = WINDOW_SIZE
    /\ 4 * Flagged = WINDOW_SIZE

\* ---- claims about whole windows in the running system ----------------------
AllZero(a) == \A i \in 1..Len(a) : a[i] = 0

\* _process_window has filtered a window whose magnitudes are all zero
ZeroWindow == pc \in {"emit", "slide"} /\ AllZero(lastWindow.acc_mag)

\* what C15 says of such a window apart from the threshold's value
ZeroWindowAtRest ==
    /\ \A i \in 1..Len(win.motion_mask) : ~win.motion_mask[i]
    /\ CountTrue(win.motion_mask) = 0
    /\ \A i \in 1..Len(win.timestamps) :
          /\ win.ecg_I_filt[i].m = THRESHOLD_MULTIPLIER_LOW_MOTION
          /\ win.ecg_II_filt[i].m = THRESHOLD_MULTIPLIER_LOW_MOTION
          /\ win.ecg_III_filt[i].m = THRESHOLD_MULTIPLIER_LOW_MOTION
    /\ JustEmitted => Len(lastEmit) = WINDOW_SIZE - OVERLAP

\* C15 as stated: for every window of all-zero magnitudes the calibrated
\* threshold is 0, no sample is flagged, the three leads use the low
\* multiplier and WINDOW_SIZE - OVERLAP rows are written.
C15_ZeroWindowThresholdZero ==
    ZeroWindow => (acc_threshold = Calibrated(0) /\ ZeroWindowAtRest)

\* C15 amended: the threshold is 0 when the all-zero window is the first one;
\* in a later one it is the value calibrated before, which is not negative,
\* and in both cases nothing is flagged, the low multiplier is used and the
\* rows are written.
C15_ZeroWindowAtRest ==
    ZeroWindow =>
        /\ windows = 1 => acc_threshold = Calibrated(0)
        /\ acc_threshold.value >= 0
        /\ ZeroWindowAtRest

\* a second window of all-zero magnitudes, written, under a positive threshold
C15_Witness ==
    /\ ZeroWindow /\ JustEmitted /\ windows = 2
    /\ acc_threshold.value > 0

\* timestamps of the filtered sink, in file order
FilteredTimestamps == [i \in 1..Len(filtered_csv) |-> filtered_csv[i].timestamp]

WindowStart(k) == (k - 1) * (WINDOW_SIZE - OVERLAP) + 1

\* C19: every window given to _process_window has exactly WINDOW_SIZE samples;
\* between process_sample calls the buffer is shorter than WINDOW_SIZE; a later
\* window begins with the last OVERLAP samples of the one before, so that
\* consecutive windows start WINDOW_SIZE - OVERLAP samples apart.
C19_WindowsExact ==
    /\ windows >= 1 =>
          /\ Len(lastWindow.timestamps) = WINDOW_SIZE
          /\ lastWindow.timestamps =
                SubSeq(appendLog, WindowStart(windows), WindowStart(windows) + WINDOW_SIZE - 1)
    /\ windows >= 2 =>
          SubSeq(lastWindow.timestamps, 1, OVERLAP) =
             SubSeq(appendLog, WindowStart(windows - 1) + WINDOW_SIZE - OVERLAP,
                               WindowStart(windows - 1) + WINDOW_SIZE - 1)
    /\ pc = "window" => Len(timestamp_buffer) = WINDOW_SIZE
    /\ BetweenCalls => Len(timestamp_buffer) < WINDOW_SIZE

\* a second window is being processed
C19_Witness == windows = 2 /\ pc = "emit" /\ WindowStart(2) > 1

====
